---- MODULE Spec2Model ----
(***************************************************************************)
(* Optimistic task-list manager of paradise-fe: the reducer and the hook   *)
(* of hooks/useTaskManager.js, driven by the drag handler of               *)
(* components/TaskContainer.js and the rows of components/TaskRow.js.      *)
(***************************************************************************)
EXTENDS Integers, Sequences, FiniteSets, TLC

(* ---------------------------- bounds ---------------------------------- *)
MaxIntents == 2          \* user intents issued in one behaviour
MaxPending == 2          \* remote calls in flight at once
MaxId == 5               \* ids handed out by crypto.randomUUID()

(* --------------------------- constants -------------------------------- *)
Cats == {"personal", "work"}
NoParent == 0            \* parentId: undefined
NoTask == 0              \* newTaskId: null
NoError == "null"        \* error: null
StaleId == 9             \* the id of a droppable whose task has left the list
ApiError == "Server error. Please try again later."

(* A description is a sequence over " " (white space), "a" (a lower-case   *)
(* letter) and "A" (an upper-case letter).                                 *)
UntitledTask == <<"A", "a", " ", "A", "a">>

(* ------------------------ String.prototype ----------------------------- *)
RECURSIVE TrimStart(_)
TrimStart(s) ==
  IF s = <<>> THEN <<>>
  ELSE IF Head(s) = " " THEN TrimStart(Tail(s)) ELSE s

RECURSIVE TrimEnd(_)
TrimEnd(s) ==
  IF s = <<>> THEN <<>>
  ELSE IF s[Len(s)] = " " THEN TrimEnd(SubSeq(s, 1, Len(s) - 1)) ELSE s

Trim(s) == TrimEnd(TrimStart(s))

ToLowerCase(s) == [i \in 1..Len(s) |-> IF s[i] = "A" THEN "a" ELSE s[i]]

\* .toLowerCase().replace(/\b\w/g, (s) => s.toUpperCase())
TitleCase(s) ==
  LET low == ToLowerCase(s)
  IN [i \in 1..Len(s) |->
        IF low[i] = "a" /\ (i = 1 \/ low[i - 1] = " ") THEN "A" ELSE low[i]]

(* --------------------------- Array helpers ----------------------------- *)
Ids(s) == {s[i].id : i \in 1..Len(s)}

\* Array.prototype.findIndex, 1-based; 0 when nothing matches (-1 in JS)
FindIndex(s, id) ==
  IF \E i \in 1..Len(s) : s[i].id = id
  THEN CHOOSE i \in 1..Len(s) : s[i].id = id /\ \A j \in 1..(i - 1) : s[j].id # id
  ELSE 0

SetMax(S) == CHOOSE m \in S : \A x \in S : x <= m

\* a sort that puts a task before the tasks of equal order already placed
RECURSIVE InsertByOrder_Unstable(_, _)
InsertByOrder_Unstable(sorted, t) ==
  IF sorted = <<>> THEN <<t>>
  ELSE IF sorted[Len(sorted)].order < t.order THEN Append(sorted, t)
       ELSE Append(InsertByOrder_Unstable(SubSeq(sorted, 1, Len(sorted) - 1), t),
                   sorted[Len(sorted)])

\* Array.prototype.sort((a, b) => a.order - b.order): a stable sort
RECURSIVE InsertByOrder(_, _)
InsertByOrder(sorted, t) ==
  IF sorted = <<>> THEN <<t>>
  ELSE IF sorted[Len(sorted)].order <= t.order THEN Append(sorted, t)
       ELSE Append(InsertByOrder(SubSeq(sorted, 1, Len(sorted) - 1), t),
                   sorted[Len(sorted)])

RECURSIVE SortByOrder(_)
SortByOrder(s) ==
  IF s = <<>> THEN <<>>
  ELSE InsertByOrder(SortByOrder(SubSeq(s, 1, Len(s) - 1)), s[Len(s)])

\* arrayMove of @dnd-kit/sortable with 1-based indices: from, to = 0 stand
\* for the -1 of a failed findIndex (splice counts -1 from the end)
ArrayMove(s, from, to) ==
  LET n == Len(s)
      f == IF from = 0 THEN n ELSE from
      item == s[f]
      rest == SubSeq(s, 1, f - 1) \o SubSeq(s, f + 1, n)
      t == IF to = 0 THEN n ELSE to
  IN IF n = 0 THEN s
     ELSE SubSeq(rest, 1, t - 1) \o <<item>> \o SubSeq(rest, t, n - 1)

(* ------------------------------ state ---------------------------------- *)
VARIABLES
  tasks,       \* state.tasks: category -> array of tasks
  category,    \* state.category
  newTaskId,   \* state.newTaskId
  isLoading,   \* state.isLoading
  error,       \* state.error
  rTasks,      \* state.tasks as captured by the callbacks of the last render
  rCategory,   \* state.category as captured by the last render
  load,        \* position of the fetch effect: "pending", "done", "failed"
  pending,     \* remote calls awaited by addTask/completeTask/reorderTasks/renameTask
  nextId,      \* next value of crypto.randomUUID()
  nIntents,    \* number of intents issued so far
  remote,      \* the tasks the remote store holds
  last,        \* history: the step taken last
  rejected     \* history: the remote calls that were rejected

vars == <<tasks, category, newTaskId, isLoading, error, rTasks, rCategory,
          load, pending, nextId, nIntents, remote, last, rejected>>

Task(id, description, cat, order, parentId) ==
  [id |-> id, description |-> description, category |-> cat,
   completed |-> FALSE, order |-> order, parentId |-> parentId]

\* what TaskService.getAllTasks answers: response.todoTasks
ServerTasks ==
  [personal |-> << Task(1, <<"a">>, "personal", 1, NoParent),
                   Task(2, <<"A", "A">>, "personal", 2, NoParent),
                   Task(3, <<"a", "a">>, "personal", 1, 2) >>,
   work |-> << >>]

\* crypto.randomUUID() never returns an id the remote store holds
FirstFreshId == Len(ServerTasks["personal"]) + Len(ServerTasks["work"]) + 1

(* ------------------- validation and repair utilities ------------------- *)
\* createSafeTask without the "Untitled Task" repair of the description
CreateSafeTask_NoRepair(task, defaultCategory) ==
  [id |-> task.id,
   description |-> Trim(task.description),
   category |-> IF task.category \in Cats THEN task.category ELSE defaultCategory,
   completed |-> task.completed,
   order |-> task.order,
   parentId |-> task.parentId]

\* the description, category and parentId repairs; id, order and completed
\* are always of the right type here and pass through
CreateSafeTask(task, defaultCategory) ==
  [id |-> task.id,
   description |-> IF Len(Trim(task.description)) > 0
                   THEN Trim(task.description) ELSE UntitledTask,
   category |-> IF task.category \in Cats THEN task.category ELSE defaultCategory,
   completed |-> task.completed,
   order |-> task.order,
   parentId |-> task.parentId]

SanitizeInitialData(data) ==
  [c \in Cats |-> [i \in 1..Len(data[c]) |-> CreateSafeTask(data[c][i], c)]]

(* ------------------------------ reducer -------------------------------- *)
\* an id generator that hands out the same id again
RandomUUID_Stuck(next) == FirstFreshId

RandomUUID(next) == next

\* ADD_TASK numbering the new task after the whole list, not its sibling group
AddTaskReduce_GlobalOrder(currentTasks, cat, description, parentId, id) ==
  Append(currentTasks, CreateSafeTask(
    [id |-> id, description |-> description, category |-> cat,
     completed |-> FALSE, order |-> Len(currentTasks) + 1, parentId |-> parentId],
    "personal"))

\* case "ADD_TASK": the new array of the category
AddTaskReduce(currentTasks, cat, description, parentId, id) ==
  LET tasksInLevel ==
        IF parentId # NoParent
        THEN SelectSeq(currentTasks, LAMBDA t : t.parentId = parentId)
        ELSE SelectSeq(currentTasks, LAMBDA t : t.parentId = NoParent)
      maxOrder ==
        IF Len(tasksInLevel) > 0
        THEN SetMax({tasksInLevel[i].order : i \in 1..Len(tasksInLevel)})
        ELSE 0
      newTask == CreateSafeTask(
        [id |-> id, description |-> description, category |-> cat,
         completed |-> FALSE, order |-> maxOrder + 1, parentId |-> parentId], "personal")
  IN Append(currentTasks, newTask)

\* COMPLETE_TASK without the cascade to the children of a section
CompleteTaskReduce_NoCascade(currentTasks, taskId) ==
  SelectSeq(currentTasks, LAMBDA t : t.id # taskId)

\* COMPLETE_TASK converting the parent of the removed task back to a plain
\* task although other children remain
CompleteTaskReduce_AlwaysConvert(currentTasks, taskId) ==
  LET taskToDelete == currentTasks[FindIndex(currentTasks, taskId)]
      updatedList ==
        SelectSeq(currentTasks, LAMBDA t : t.id # taskId /\ t.parentId # taskId)
  IN [i \in 1..Len(updatedList) |->
        IF updatedList[i].id = taskToDelete.parentId
        THEN [updatedList[i] EXCEPT !.description = TitleCase(@)]
        ELSE updatedList[i]]

\* case "COMPLETE_TASK": the new array of the category (taskId is in it)
CompleteTaskReduce(currentTasks, taskId) ==
  LET taskToDelete == currentTasks[FindIndex(currentTasks, taskId)]
      updatedList ==
        SelectSeq(currentTasks, LAMBDA t : t.id # taskId /\ t.parentId # taskId)
      remainingSiblings ==
        \E i \in 1..Len(updatedList) : updatedList[i].parentId = taskToDelete.parentId
  IN IF taskToDelete.parentId # NoParent /\ ~remainingSiblings
     THEN [i \in 1..Len(updatedList) |->
             IF updatedList[i].id = taskToDelete.parentId
             THEN [updatedList[i] EXCEPT !.description = TitleCase(@)]
             ELSE updatedList[i]]
     ELSE updatedList

\* REORDER_TASKS applying the positions of the payload but not its parentIds
ReorderTasksReduce_KeepParents(currentTasks, payload) ==
  [i \in 1..Len(payload) |->
     IF payload[i].id \in Ids(currentTasks)
     THEN [payload[i] EXCEPT !.parentId =
             currentTasks[FindIndex(currentTasks, payload[i].id)].parentId]
     ELSE payload[i]]

\* case "REORDER_TASKS": the payload is always an array here
ReorderTasksReduce(currentTasks, payload) == payload

\* case "RENAME_TASK": the new array of the category (description not blank)
RenameTaskReduce(currentTasks, id, description) ==
  [i \in 1..Len(currentTasks) |->
     IF currentTasks[i].id = id
     THEN [currentTasks[i] EXCEPT !.description = description]
     ELSE currentTasks[i]]

\* ROLLBACK that restores the snapshot but keeps the tasks added since
RollbackReduce_KeepNewer(currentAll, payload) ==
  [c \in Cats |->
     payload[c] \o SelectSeq(currentAll[c], LAMBDA t : t.id \notin Ids(payload[c]))]

\* case "ROLLBACK": the new state.tasks
RollbackReduce(currentAll, payload) == payload

\* error: action.error || null
RollbackError(message) == IF message = "" THEN NoError ELSE message

(* --------------------------- hierarchicalTasks ------------------------- *)
RECURSIVE WithChildren(_, _)
WithChildren(roots, ts) ==
  IF roots = <<>> THEN <<>>
  ELSE <<Head(roots)>>
       \o SortByOrder(SelectSeq(ts, LAMBDA t : t.parentId = Head(roots).id))
       \o WithChildren(Tail(roots), ts)

\* a flattening that lists every root task first and the children after them
HierarchicalTasks_RootsFirst(ts) ==
  SortByOrder(SelectSeq(ts, LAMBDA t : t.parentId = NoParent))
  \o SortByOrder(SelectSeq(ts, LAMBDA t :
        \E i \in 1..Len(ts) : ts[i].id = t.parentId /\ ts[i].parentId = NoParent))

HierarchicalTasks(ts) ==
  WithChildren(SortByOrder(SelectSeq(ts, LAMBDA t : t.parentId = NoParent)), ts)

\* currentTasks as the components of the last render received it
Rendered == HierarchicalTasks(rTasks[rCategory])

(* ----------------------- components/TaskContainer ---------------------- *)
IsSection(task, allTasks) ==
  \E i \in 1..Len(allTasks) : allTasks[i].parentId = task.id

\* the droppables of the render while activeId is dragged: every row, and a
\* DropZone under every other root row that is not a section
Droppables(ts, activeId) ==
  {[zone |-> FALSE, id |-> ts[i].id] : i \in 1..Len(ts)}
  \cup {[zone |-> TRUE, id |-> ts[i].id] :
          i \in {j \in 1..Len(ts) : /\ ts[j].parentId = NoParent
                                    /\ ~IsSection(ts[j], ts)
                                    /\ ts[j].id # activeId}}

\* over: null
NoOver == [zone |-> FALSE, id |-> NoTask]

\* the droppables dnd-kit may still report although their row has left the
\* list: over is updated by an effect that runs after the list is rendered
StaleDroppables == {[zone |-> z, id |-> StaleId] : z \in BOOLEAN}

\* handleDragEnd nesting the dragged task under whatever task it is dropped on
DragEndList_NestUnderTarget(ts, draggedId, over) ==
  LET moved == ArrayMove(ts, FindIndex(ts, draggedId), FindIndex(ts, over.id))
  IN [i \in 1..Len(moved) |->
        IF moved[i].id = draggedId
        THEN [moved[i] EXCEPT !.parentId = over.id]
        ELSE moved[i]]

\* handleDragEnd past its early return: the list handed to onTaskReorder
DragEndList(ts, draggedId, over) ==
  LET isNestingAction == over.zone
      targetId == over.id
      oldIndex == FindIndex(ts, draggedId)
      newIndex == FindIndex(ts, targetId)
      moved == ArrayMove(ts, oldIndex, newIndex)
      targetParent == IF newIndex = 0 THEN NoParent ELSE ts[newIndex].parentId
  IN [i \in 1..Len(moved) |->
        IF moved[i].id = draggedId
        THEN [moved[i] EXCEPT !.parentId =
                IF isNestingAction THEN targetId ELSE targetParent]
        ELSE moved[i]]

\* the rebuild in hierarchical order of the TaskContainer that renumbers: each
\* root task in array order, followed by its children in array order (ids
\* are unique, so processedIds never skips a task)
RECURSIVE RebuildHierarchy(_, _)
RebuildHierarchy(roots, reorderedTasks) ==
  IF roots = <<>> THEN <<>>
  ELSE <<Head(roots)>>
       \o SelectSeq(reorderedTasks, LAMBDA t : t.parentId = Head(roots).id)
       \o RebuildHierarchy(Tail(roots), reorderedTasks)

\* finalTasksWithOrder of that TaskContainer: roots numbered 1, 2, ... and
\* every child numbered by its index among its siblings
FinalTasksWithOrder(reorderedTasks) ==
  LET finalTasks ==
        RebuildHierarchy(SelectSeq(reorderedTasks, LAMBDA t : t.parentId = NoParent),
                         reorderedTasks)
  IN [i \in 1..Len(finalTasks) |->
        [finalTasks[i] EXCEPT !.order =
           Cardinality({j \in 1..i : finalTasks[j].parentId = finalTasks[i].parentId})]]

(* ------------------------- the remote task store ---------------------- *)
\* the fields of a task the requests carry
Stored(task) ==
  [id |-> task.id, description |-> task.description, category |-> task.category,
   order |-> task.order, parentId |-> task.parentId]

\* the store that answers getAllTasks with data
StoreOf(data) == UNION {{Stored(data[c][i]) : i \in 1..Len(data[c])} : c \in Cats}

\* POST tasks/todo
CreateTodoTask(store, task) ==
  {t \in store : t.id # task.id} \cup {Stored(task)}

\* PUT tasks/todo/<taskId> with a partial task
UpdateTodoTask(store, taskId, updates) ==
  {IF t.id = taskId
   THEN [f \in DOMAIN t |-> IF f \in DOMAIN updates THEN updates[f] ELSE t[f]]
   ELSE t : t \in store}

\* DELETE tasks/todo/<taskId>: deletes the task and its children
DeleteTodoTask(store, taskId) ==
  {t \in store : t.id # taskId /\ t.parentId # taskId}

\* the { order: index + 1 } updates of a reorder the store has served
RECURSIVE UpdateOrders(_, _)
UpdateOrders(store, updates) ==
  IF updates = {} THEN store
  ELSE LET u == CHOOSE x \in updates : TRUE
       IN UpdateOrders(UpdateTodoTask(store, u.id, [order |-> u.order]),
                       updates \ {u})

\* the store after it has served the request of call p (for a reorder, the
\* requests applied)
Served(store, p, applied) ==
  CASE p.kind = "add" -> CreateTodoTask(store, p.req.task)
    [] p.kind = "complete" -> DeleteTodoTask(store, p.id)
    [] p.kind = "rename" -> UpdateTodoTask(store, p.id, [description |-> p.description])
    [] p.kind = "reorder" -> UpdateOrders(store, applied)

(* ------------------------------ the hook ------------------------------- *)
AddInputs == {<< >>, <<" ">>, <<" ", "A">>}
RenameInputs == {<<" ">>, <<"A">>}

NoRequest == [task |-> Task(NoTask, << >>, "personal", 0, NoParent), updates |-> {}]

\* addTask: the taskData handed to TaskService.createTodoTask, computed from
\* the state of the last render
AddTaskData(id, description, parentId) ==
  LET currentTasks == rTasks[rCategory]
      tasksInLevel ==
        IF parentId # NoParent
        THEN SelectSeq(currentTasks, LAMBDA t : t.parentId = parentId)
        ELSE SelectSeq(currentTasks, LAMBDA t : t.parentId = NoParent)
      maxOrder ==
        IF Len(tasksInLevel) > 0
        THEN SetMax({tasksInLevel[i].order : i \in 1..Len(tasksInLevel)})
        ELSE 0
  IN Task(id, IF description = << >> THEN UntitledTask ELSE description,
          rCategory, maxOrder + 1, parentId)

\* reorderTasks: the updates handed to TaskService.updateTodoTask
ReorderUpdates(list) ==
  {[id |-> list[i].id, order |-> i] : i \in {j \in 1..Len(list) : list[j].order # j}}

\* one awaited remote call; previousTasks is the snapshot of the callback.
\* cat, parentId, list, over, pre, fresh and load are history: the category
\* the reducer applied the action to, the arguments, the drop target,
\* state.tasks and state.error right before the dispatch, the next random id
\* and the position of the fetch effect then
Call(kind, id, description, parentId, list, req) ==
  [n |-> nIntents + 1, kind |-> kind, previousTasks |-> rTasks,
   id |-> id, description |-> description, req |-> req,
   cat |-> category, parentId |-> parentId, list |-> list, over |-> NoOver,
   pre |-> tasks, error |-> error, fresh |-> nextId, load |-> load]

NoCall ==
  [n |-> 0, kind |-> "none", previousTasks |-> [c \in Cats |-> << >>],
   id |-> NoTask, description |-> << >>, req |-> NoRequest,
   cat |-> "personal", parentId |-> NoParent, list |-> << >>, over |-> NoOver,
   pre |-> [c \in Cats |-> << >>], error |-> NoError, fresh |-> FirstFreshId,
   load |-> "pending"]

CanIssue == nIntents < MaxIntents /\ Cardinality(pending) < MaxPending

Init ==
  /\ tasks = [c \in Cats |-> << >>]
  /\ category = "personal"
  /\ newTaskId = NoTask
  /\ isLoading = TRUE
  /\ error = NoError
  /\ rTasks = [c \in Cats |-> << >>]
  /\ rCategory = "personal"
  /\ load = "pending"
  /\ pending = {}
  /\ nextId = FirstFreshId
  /\ nIntents = 0
  /\ remote = StoreOf(ServerTasks)
  /\ last = [op |-> "init", call |-> NoCall]
  /\ rejected = {}

\* the fetch effect: getAllTasks resolves, SET_TASKS
LoadOk ==
  /\ load = "pending"
  /\ load' = "done"
  /\ tasks' = SanitizeInitialData(ServerTasks)
  /\ isLoading' = FALSE
  /\ error' = NoError
  /\ last' = [op |-> "load", call |-> NoCall]
  /\ UNCHANGED <<category, newTaskId, rTasks, rCategory, rejected, remote, pending, nextId, nIntents>>

\* the fetch effect: getAllTasks rejects, SET_ERROR and SET_LOADING
LoadFail ==
  /\ load = "pending"
  /\ load' = "failed"
  /\ error' = ApiError
  /\ isLoading' = FALSE
  /\ last' = [op |-> "loadfail", call |-> NoCall]
  /\ UNCHANGED <<tasks, category, newTaskId, rTasks, rCategory, rejected, remote, pending, nextId, nIntents>>

\* React renders the hook again: the callbacks and currentTasks are rebuilt
Render ==
  /\ rTasks # tasks \/ rCategory # category
  /\ rTasks' = tasks
  /\ rCategory' = category
  /\ UNCHANGED <<tasks, category, newTaskId, isLoading, error, load, pending,
                 nextId, nIntents, last, rejected, remote>>

SetCategory(cat) ==
  /\ cat \in Cats /\ cat # category
  /\ category' = cat
  /\ UNCHANGED <<tasks, newTaskId, isLoading, error, rTasks, rCategory, rejected, remote, load,
                 pending, nextId, nIntents, last>>

AddTask(description, parentId) ==
  /\ CanIssue /\ nextId <= MaxId
  /\ LET id == RandomUUID(nextId)
         call == Call("add", id, description, parentId, << >>,
                      [task |-> AddTaskData(id, description, parentId), updates |-> {}])
     IN /\ tasks' = [tasks EXCEPT ![category] =
                       AddTaskReduce(@, category, description, parentId, id)]
        /\ newTaskId' = id
        /\ pending' = pending \cup {call}
        /\ last' = [op |-> "issue", call |-> call]
  /\ nextId' = nextId + 1
  /\ nIntents' = nIntents + 1
  /\ UNCHANGED <<category, isLoading, error, rTasks, rCategory, rejected, remote, load>>

CompleteTask(id) ==
  /\ CanIssue
  /\ IF id \in Ids(tasks[category])
     THEN /\ tasks' = [tasks EXCEPT ![category] = CompleteTaskReduce(@, id)]
          /\ newTaskId' = NoTask
     ELSE UNCHANGED <<tasks, newTaskId>>
  /\ LET call == Call("complete", id, << >>, NoParent, << >>, NoRequest)
     IN /\ pending' = pending \cup {call}
        /\ last' = [op |-> "issue", call |-> call]
  /\ nIntents' = nIntents + 1
  /\ UNCHANGED <<category, isLoading, error, rTasks, rCategory, rejected, remote, load, nextId>>

RenameTask(id, description) ==
  /\ CanIssue
  /\ IF Trim(description) # << >>
     THEN /\ tasks' = [tasks EXCEPT ![category] = RenameTaskReduce(@, id, description)]
          /\ newTaskId' = NoTask
     ELSE UNCHANGED <<tasks, newTaskId>>
  /\ LET call == Call("rename", id, description, NoParent, << >>,
                      [task |-> Task(id, description, "personal", 0, NoParent),
                       updates |-> {}])
     IN /\ pending' = pending \cup {call}
        /\ last' = [op |-> "issue", call |-> call]
  /\ nIntents' = nIntents + 1
  /\ UNCHANGED <<category, isLoading, error, rTasks, rCategory, rejected, remote, load, nextId>>

\* reorderTasks(list); draggedId and over are history
ReorderTasks(list, draggedId, over) ==
  /\ tasks' = [tasks EXCEPT ![category] = ReorderTasksReduce(@, list)]
  /\ LET call == [Call("reorder", draggedId, << >>, NoParent, list,
                        [task |-> NoRequest.task, updates |-> ReorderUpdates(list)])
                   EXCEPT !.over = over]
     IN /\ pending' = pending \cup {call}
        /\ last' = [op |-> "issue", call |-> call]
  /\ nIntents' = nIntents + 1
  /\ UNCHANGED <<category, newTaskId, isLoading, error, rTasks, rCategory, rejected, remote, load, nextId>>

\* handleDragEnd of the rendered TaskContainer, then onTaskReorder
HandleDragEnd(activeId, over) ==
  /\ CanIssue
  /\ over # NoOver
  /\ over # [zone |-> FALSE, id |-> activeId]
  /\ ReorderTasks(DragEndList(Rendered, activeId, over), activeId, over)

\* a drag of a rendered row that ends over a droppable of the same render
DragEnd(activeId, over) ==
  /\ activeId \in Ids(Rendered)
  /\ over \in Droppables(Rendered, activeId)
  /\ HandleDragEnd(activeId, over)

\* the awaited call resolves: the remote store has served every request of it
RemoteOk(p) ==
  /\ p \in pending
  /\ pending' = pending \ {p}
  /\ remote' = Served(remote, p, p.req.updates)
  /\ last' = [op |-> "resolved", call |-> p]
  /\ UNCHANGED <<tasks, category, newTaskId, isLoading, error, rTasks, rCategory,
                 rejected, load, nextId, nIntents>>

\* the awaited call rejects: the catch block dispatches ROLLBACK. The one
\* request of an Add, a Complete or a Rename was refused; of the requests of a
\* reorder, which Promise.all awaits together, at least one was refused and
\* any of the others may have been served
RemoteFail(p) ==
  /\ p \in pending
  /\ p.kind = "reorder" => p.req.updates # {}
  /\ pending' = pending \ {p}
  /\ IF p.kind = "reorder"
     THEN \E applied \in (SUBSET p.req.updates) \ {p.req.updates} :
            remote' = Served(remote, p, applied)
     ELSE remote' = remote
  /\ tasks' = RollbackReduce(tasks, p.previousTasks)
  /\ error' = RollbackError(ApiError)
  /\ last' = [op |-> "rollback", call |-> p]
  /\ rejected' = rejected \cup {p}
  /\ UNCHANGED <<category, newTaskId, isLoading, rTasks, rCategory, load,
                 nextId, nIntents>>

Intent ==
  \/ \E description \in AddInputs :
       \E parentId \in {NoParent} \cup {Rendered[i].id :
                          i \in {j \in 1..Len(Rendered) : Rendered[j].parentId = NoParent}} :
         AddTask(description, parentId)
  \/ \E id \in Ids(Rendered) : CompleteTask(id)
  \/ \E id \in Ids(Rendered) : \E description \in RenameInputs : RenameTask(id, description)
  \/ \E activeId \in Ids(Rendered) :
       \E over \in Droppables(Rendered, activeId) : DragEnd(activeId, over)

Settle ==
  \/ \E p \in pending : RemoteOk(p)
  \/ \E p \in pending : RemoteFail(p)

\* the hook with the active category left as constructed
Next ==
  \/ LoadOk
  \/ LoadFail
  \/ Render
  \/ Intent
  \/ Settle

Spec == Init /\ [][Next]_vars

\* the hook with the category toggle in use
NextCategory ==
  \/ Next
  \/ \E cat \in Cats : SetCategory(cat)

SpecCategory == Init /\ [][NextCategory]_vars

(* ------------------- one drag gesture on a loaded list ----------------- *)
\* collections getAllTasks may answer: two sections with one child each; a
\* plain task and a section; a section with two children and two plain tasks
GesturePayloads ==
  { [personal |-> << Task(1, <<"A", " ", "A">>, "personal", 1, NoParent),
                     Task(2, <<"A", "A">>, "personal", 2, NoParent),
                     Task(3, <<"a">>, "personal", 1, 1),
                     Task(4, <<"a", "a">>, "personal", 1, 2) >>,
     work |-> << >>],
    ServerTasks,
    [personal |-> << Task(1, <<"A">>, "personal", 1, NoParent),
                     Task(2, <<"a">>, "personal", 1, 1),
                     Task(3, <<"a", "a">>, "personal", 2, 1),
                     Task(4, <<"a", " ", "a">>, "personal", 2, NoParent),
                     Task(5, <<"a", "A">>, "personal", 3, NoParent) >>,
     work |-> << >>] }

\* the hook after SET_TASKS and the render that follows it
InitGesture ==
  /\ \E payload \in GesturePayloads :
       /\ tasks = SanitizeInitialData(payload)
       /\ rTasks = SanitizeInitialData(payload)
       /\ remote = StoreOf(payload)
  /\ category = "personal"
  /\ newTaskId = NoTask
  /\ isLoading = FALSE
  /\ error = NoError
  /\ rCategory = "personal"
  /\ load = "done"
  /\ pending = {}
  /\ nextId = FirstFreshId
  /\ nIntents = 0
  /\ last = [op |-> "load", call |-> NoCall]
  /\ rejected = {}

\* the first drag on that list: its target is a droppable of the render, or
\* one whose row has left the list
Gesture ==
  /\ nIntents = 0
  /\ \E activeId \in Ids(Rendered) :
       \E over \in Droppables(Rendered, activeId) \cup StaleDroppables :
         HandleDragEnd(activeId, over)

NextGesture ==
  \/ Gesture
  \/ Settle

SpecGesture == InitGesture /\ [][NextGesture]_vars

(* ----------------------- the hook on a loaded list --------------------- *)
\* the hook once the fetch effect has installed the tasks of the store and
\* the list has been rendered
LoadedWith(payload) ==
  /\ tasks = SanitizeInitialData(payload)
  /\ rTasks = SanitizeInitialData(payload)
  /\ remote = StoreOf(payload)
  /\ category = "personal"
  /\ newTaskId = NoTask
  /\ isLoading = FALSE
  /\ error = NoError
  /\ rCategory = "personal"
  /\ load = "done"
  /\ pending = {}
  /\ nextId = FirstFreshId
  /\ nIntents = 0
  /\ last = [op |-> "load", call |-> NoCall]
  /\ rejected = {}

InitLoaded == LoadedWith(ServerTasks)

NextLoaded ==
  \/ Render
  \/ Intent
  \/ Settle

SpecLoaded == InitLoaded /\ [][NextLoaded]_vars

\* the loaded hook with the category toggle in use
NextLoadedCategory ==
  \/ NextLoaded
  \/ \E cat \in Cats : SetCategory(cat)

\* a store that holds one task
SmallServerTasks ==
  [personal |-> << Task(1, <<"a">>, "personal", 1, NoParent) >>,
   work |-> << >>]

InitLoadedCategory == LoadedWith(SmallServerTasks)

SpecLoadedCategory == InitLoadedCategory /\ [][NextLoadedCategory]_vars

TypeOK ==
  /\ category \in Cats /\ rCategory \in Cats
  /\ nextId \in FirstFreshId..(MaxId + 1)
  /\ nIntents \in 0..MaxIntents
  /\ Cardinality(pending) <= MaxPending

(* ------------------------------ properties ----------------------------- *)
\* a collection by value: id, description, order and parentId of every task
Shape(all) ==
  [c \in Cats |-> [i \in 1..Len(all[c]) |->
     [id |-> all[c][i].id, description |-> all[c][i].description,
      order |-> all[c][i].order, parentId |-> all[c][i].parentId]]]

AllIds(all) == UNION {Ids(all[c]) : c \in Cats}

Issued(kind) == last.op = "issue" /\ last.call.kind = kind
RolledBack == last.op = "rollback"
Blank(description) == Trim(description) = << >>

\* the sibling groups of one category: the root group and one per parentId in use
Parents(ts) == {ts[i].parentId : i \in 1..Len(ts)} \cup {NoParent}
Group(ts, parentId) == {i \in 1..Len(ts) : ts[i].parentId = parentId}

\* C1: after the rollback of a rejected intent the collection equals, by
\* value, the collection right before that intent's optimistic change
C1_RollbackRestoresPreIntent ==
  RolledBack => Shape(tasks) = Shape(last.call.pre)

\* C2: in every sibling group of every category the order values are exactly
\* 1..N, N the size of the group
C2_DenseOrders ==
  \A c \in Cats : \A parentId \in Parents(tasks[c]) :
    {tasks[c][i].order : i \in Group(tasks[c], parentId)}
      = 1..Cardinality(Group(tasks[c], parentId))

\* C3: every task with a parentId refers to a task of the same category that
\* exists and is itself a root task
C3_DepthAtMostOne ==
  \A c \in Cats : \A i \in 1..Len(tasks[c]) :
    tasks[c][i].parentId # NoParent =>
      \E j \in 1..Len(tasks[c]) :
        tasks[c][j].id = tasks[c][i].parentId /\ tasks[c][j].parentId = NoParent

\* C4: no two tasks of a collection share an id
C4_UniqueIds ==
  \A c \in Cats : \A i, j \in 1..Len(tasks[c]) :
    tasks[c][i].id = tasks[c][j].id => i = j

\* C4 witness: a drag has reordered a collection that holds an added task
C4_Witness ==
  /\ Issued("reorder")
  /\ \E i \in 1..Len(tasks[category]) : tasks[category][i].id >= FirstFreshId
  /\ Len(tasks[category]) >= 4

\* C5: the rollback of A installs A's snapshot, so nothing committed after A
\* was dispatched (no task added since) is left in the collection
C5_RollbackDiscardsLaterIntents ==
  RolledBack =>
    /\ tasks = last.call.previousTasks
    /\ \A id \in AllIds(tasks) : id < last.call.fresh

\* C5 witness: A is rolled back after an Add was committed while A was pending
C5_Witness ==
  /\ RolledBack
  /\ nextId > last.call.fresh + (IF last.call.kind = "add" THEN 1 ELSE 0)
  /\ AllIds(tasks) # {}

\* C6: right after the reorder the collection is the complete optimistic list,
\* right after its rollback it is the complete snapshot and the error is set
C6_ReorderAllOrNothing ==
  /\ Issued("reorder") => tasks[last.call.cat] = last.call.list
  /\ (RolledBack /\ last.call.kind = "reorder") =>
       /\ tasks = last.call.previousTasks
       /\ error # NoError

\* C6 witness: the rollback of a reorder that had moved a task under a new parent
C6_Witness ==
  /\ RolledBack /\ last.call.kind = "reorder"
  /\ \E i \in 1..Len(last.call.list) : \E j \in 1..Len(tasks[last.call.cat]) :
       /\ last.call.list[i].id = tasks[last.call.cat][j].id
       /\ last.call.list[i].parentId # tasks[last.call.cat][j].parentId

C8_BlankRenameSilent ==
  [][(last'.op \in {"issue", "resolved", "rollback"}
       /\ last'.call.kind = "rename" /\ Blank(last'.call.description)
       /\ last' # last)
     => (tasks' = tasks /\ error' = error)]_vars

\* C9: an Add with a non-blank description appends exactly one task with a
\* fresh id, completed = false, the given parentId and order N+1 when its
\* sibling group held the orders 1..N, and changes no existing task
C9_AddAppendsNextInGroup ==
  (Issued("add") /\ ~Blank(last.call.description)) =>
    LET old == last.call.pre[last.call.cat]
        new == tasks[last.call.cat]
        added == new[Len(new)]
        siblings == Group(old, last.call.parentId)
    IN /\ Len(new) = Len(old) + 1
       /\ SubSeq(new, 1, Len(old)) = old
       /\ \A c \in Cats \ {last.call.cat} : tasks[c] = last.call.pre[c]
       /\ added.id \notin AllIds(last.call.pre)
       /\ added.completed = FALSE
       /\ added.parentId = last.call.parentId
       /\ ({old[i].order : i \in siblings} = 1..Cardinality(siblings)
             => added.order = Cardinality(siblings) + 1)

\* C9 witness: a task has been added under a section that had one child
C9_Witness ==
  /\ Issued("add") /\ ~Blank(last.call.description)
  /\ last.call.parentId # NoParent
  /\ Cardinality(Group(last.call.pre[last.call.cat], last.call.parentId)) = 1
  /\ Cardinality(Group(last.call.pre[last.call.cat], NoParent)) = 2

\* C10: Complete(id) removes the task with that id and every task whose
\* parentId is that id, and no other task
C10_CompleteRemovesTaskAndChildren ==
  Issued("complete") =>
    LET old == last.call.pre[last.call.cat]
        new == tasks[last.call.cat]
        gone == {last.call.id} \cup
                {old[i].id : i \in {j \in 1..Len(old) : old[j].parentId = last.call.id}}
    IN /\ last.call.id \in Ids(old) =>
            /\ Ids(new) = Ids(old) \ gone
            /\ Len(new) = Cardinality(Ids(old) \ gone)
       /\ last.call.id \notin Ids(old) => new = old
       /\ \A c \in Cats \ {last.call.cat} : tasks[c] = last.call.pre[c]

\* C10 witness: a section with a child has been completed and a task remains
C10_Witness ==
  /\ Issued("complete")
  /\ \E i \in 1..Len(last.call.pre[last.call.cat]) :
       last.call.pre[last.call.cat][i].parentId = last.call.id
  /\ Len(tasks[last.call.cat]) > 0

\* the task with the given id in a list that holds it
TaskOf(ts, id) == ts[FindIndex(ts, id)]

\* C11: when Complete removes the last child of a section S, S stays with its
\* id, order and parentId and a description that differs from the old one by
\* letter case only; when other children of S remain, S is left unchanged
C11_SectionSurvivesChildCompletion ==
  Issued("complete") =>
    LET old == last.call.pre[last.call.cat]
        new == tasks[last.call.cat]
        id == last.call.id
    IN (id \in Ids(old) /\ TaskOf(old, id).parentId \in Ids(old) \ {id}) =>
         LET S == TaskOf(old, id).parentId
             others == {i \in Group(old, S) : old[i].id # id}
         IN /\ S \in Ids(new)
            /\ TaskOf(new, S).id = S
            /\ TaskOf(new, S).order = TaskOf(old, S).order
            /\ TaskOf(new, S).parentId = TaskOf(old, S).parentId
            /\ Len(TaskOf(new, S).description) = Len(TaskOf(old, S).description)
            /\ ToLowerCase(TaskOf(new, S).description)
                 = ToLowerCase(TaskOf(old, S).description)
            /\ others # {} => TaskOf(new, S) = TaskOf(old, S)

\* C11 witness: the only child of an upper-case section has been completed
\* and the section is still there under a converted description
C11_Witness ==
  /\ Issued("complete")
  /\ last.call.id \in Ids(last.call.pre[last.call.cat])
  /\ LET old == last.call.pre[last.call.cat]
         S == TaskOf(old, last.call.id).parentId
     IN /\ S \in Ids(old) /\ S \in Ids(tasks[last.call.cat])
        /\ Cardinality(Group(old, S)) = 1
        /\ TaskOf(tasks[last.call.cat], S).description # TaskOf(old, S).description

(* ---------------------- the drag gesture, by value --------------------- *)
\* the data-model invariants of one list
UniqueIdsIn(ts) == \A i, j \in 1..Len(ts) : ts[i].id = ts[j].id => i = j
DenseOrdersIn(ts) ==
  \A parentId \in Parents(ts) :
    {ts[i].order : i \in Group(ts, parentId)} = 1..Cardinality(Group(ts, parentId))
DepthAtMostOneIn(ts) ==
  \A i \in 1..Len(ts) :
    ts[i].parentId # NoParent =>
      \E j \in 1..Len(ts) : ts[j].id = ts[i].parentId /\ ts[j].parentId = NoParent
WellFormed(ts) == UniqueIdsIn(ts) /\ DenseOrdersIn(ts) /\ DepthAtMostOneIn(ts)

Zone(id) == [zone |-> TRUE, id |-> id]
Row(id) == [zone |-> FALSE, id |-> id]

\* C12: with sections A (order 1) and B (order 2) of one child each, B's only
\* child X can be dropped on A's dropzone, and the collection then has X under
\* A with order 2, B without children and with its description converted to
\* plain-task form, and is well formed
C12_MoveOnlyChildToOtherSection ==
  \A A, B, X \in Ids(Rendered) :
    ( /\ TaskOf(Rendered, A).parentId = NoParent /\ TaskOf(Rendered, A).order = 1
      /\ TaskOf(Rendered, B).parentId = NoParent /\ TaskOf(Rendered, B).order = 2
      /\ Cardinality(Group(Rendered, A)) = 1
      /\ Group(Rendered, B) = {FindIndex(Rendered, X)} ) =>
    /\ Zone(A) \in Droppables(Rendered, X)
    /\ LET new == ReorderTasksReduce(Rendered, DragEndList(Rendered, X, Zone(A)))
       IN /\ TaskOf(new, X).parentId = A
          /\ TaskOf(new, X).order = 2
          /\ Group(new, B) = {}
          /\ TaskOf(new, B).description = TitleCase(TaskOf(Rendered, B).description)
          /\ WellFormed(new)

\* C13: while a task T that is not a section is dragged, a nesting dropzone is
\* offered on every other root task P that has N >= 1 children, and dropping T
\* on it sets T.parentId to P so that P has N + 1 children
C13_SectionAcceptsAnotherChild ==
  \A P, T \in Ids(Rendered) :
    ( /\ TaskOf(Rendered, P).parentId = NoParent
      /\ Group(Rendered, P) # {}
      /\ T # P /\ TaskOf(Rendered, T).parentId # P
      /\ ~IsSection(TaskOf(Rendered, T), Rendered) ) =>
    /\ Zone(P) \in Droppables(Rendered, T)
    /\ LET new == ReorderTasksReduce(Rendered, DragEndList(Rendered, T, Zone(P)))
       IN /\ TaskOf(new, T).parentId = P
          /\ Cardinality(Group(new, P)) = Cardinality(Group(Rendered, P)) + 1

\* the list handleDragEnd was given by the gesture recorded in last, the
\* dragged task and the drop target
Before == HierarchicalTasks(last.call.previousTasks[last.call.cat])
After == tasks[last.call.cat]
DraggedId == last.call.id
TargetId == last.call.over.id
Dragged == Issued("reorder") /\ DraggedId \in Ids(Before)
Untouched ==
  /\ tasks = last.call.pre
  /\ last.call \notin pending
  /\ last.call.req.updates = {}

\* C14: whatever a section is dropped on, its parentId is unset in the
\* resulting collection
C14_SectionStaysRoot ==
  (Dragged /\ IsSection(TaskOf(Before, DraggedId), Before)) =>
    /\ DraggedId \in Ids(After)
    /\ TaskOf(After, DraggedId).parentId = NoParent

\* C15: dropping a root section on another root task's dropzone is rejected:
\* the collection is left as it was and no remote update is requested
C15_SectionOnDropzoneRejected ==
  ( /\ Dragged /\ last.call.over.zone
    /\ IsSection(TaskOf(Before, DraggedId), Before)
    /\ TaskOf(Before, DraggedId).parentId = NoParent
    /\ TargetId \in Ids(Before) \ {DraggedId}
    /\ TaskOf(Before, TargetId).parentId = NoParent ) => Untouched

\* a list the Reorder/Renest operation may commit: ids unique, every parentId
\* the id of a root task of the list, the category right, orders dense
ValidList(list, cat) ==
  /\ WellFormed(list)
  /\ \A i \in 1..Len(list) : list[i].category = cat

\* C16: a Reorder/Renest with a list that breaks a data-model invariant is
\* rejected wholesale: the collection is left untouched and no remote update
\* is requested
C16_InvalidReorderRejected ==
  (Issued("reorder") /\ ~ValidList(last.call.list, last.call.cat)) => Untouched

\* the tasks of the updated list whose order or parentId differs from the one
\* they had in the collection before the reorder
ChangedBy(old, list) ==
  {id \in Ids(list) :
     \/ id \notin Ids(old)
     \/ TaskOf(list, id).order # TaskOf(old, id).order
     \/ TaskOf(list, id).parentId # TaskOf(old, id).parentId}

\* C17: a committed reorder requests a remote update for exactly the tasks
\* whose order or parentId changed, each carrying the task's new order and,
\* when the parent changed, its new parentId
C17_ReorderRequestsMinimalDiff ==
  Issued("reorder") =>
    LET old == last.call.pre[last.call.cat]
        list == last.call.list
        updates == last.call.req.updates
    IN /\ {u.id : u \in updates} = ChangedBy(old, list)
       /\ \A u \in updates :
            /\ u.order = TaskOf(list, u.id).order
            /\ (u.id \in Ids(old)
                  /\ TaskOf(list, u.id).parentId # TaskOf(old, u.id).parentId)
                 => /\ "parentId" \in DOMAIN u
                    /\ u["parentId"] = TaskOf(list, u.id).parentId

\* C18: a gesture whose target is the dragged task itself or matches no task
\* of the collection applies no Reorder and leaves the collection unchanged
C18_SelfOrUnknownTargetIgnored ==
  (Dragged /\ (TargetId = DraggedId \/ TargetId \notin Ids(Before))) => Untouched

\* C19: a task that is not a section, dropped on the row of another task,
\* gets the parentId of that task (its parent, or none when it is a root
\* task), and the parentId of every other task is unchanged
C19_RowDropAdoptsTargetParent ==
  ( /\ Dragged /\ ~last.call.over.zone
    /\ TargetId \in Ids(Before) \ {DraggedId}
    /\ ~IsSection(TaskOf(Before, DraggedId), Before) ) =>
    /\ Ids(After) = Ids(Before)
    /\ TaskOf(After, DraggedId).parentId = TaskOf(Before, TargetId).parentId
    /\ \A id \in Ids(Before) \ {DraggedId} :
         TaskOf(After, id).parentId = TaskOf(Before, id).parentId

\* C19 witness: a child has been dropped on a child of another section
C19_Witness ==
  /\ Dragged /\ ~last.call.over.zone
  /\ TargetId \in Ids(Before) \ {DraggedId}
  /\ TaskOf(Before, TargetId).parentId # NoParent
  /\ TaskOf(Before, DraggedId).parentId
       \notin {NoParent, TaskOf(Before, TargetId).parentId}
  /\ TaskOf(After, DraggedId).parentId = TaskOf(Before, TargetId).parentId

\* the ids of one sibling group in the order of the flattened render sequence
GroupIds(ts, parentId) ==
  LET g == SelectSeq(HierarchicalTasks(ts), LAMBDA t : t.parentId = parentId)
  IN [i \in 1..Len(g) |-> g[i].id]
Position(ids, id) ==
  IF \E i \in 1..Len(ids) : ids[i] = id
  THEN CHOOSE i \in 1..Len(ids) : ids[i] = id ELSE 0

\* C20: after a task is dropped on the row of a target of its resulting
\* sibling group, it holds in the rendered group the position the target held
\* before the gesture, and the other members keep their relative order
C20_RowDropTakesTargetPosition ==
  ( /\ Dragged /\ ~last.call.over.zone
    /\ TargetId \in Ids(Before) \ {DraggedId}
    /\ DraggedId \in Ids(After) /\ TargetId \in Ids(After)
    /\ TaskOf(After, DraggedId).parentId = TaskOf(After, TargetId).parentId ) =>
    LET g == TaskOf(After, TargetId).parentId
        was == GroupIds(Before, g)
        now == GroupIds(After, g)
    IN /\ Position(now, DraggedId) = Position(was, TargetId)
       /\ SelectSeq(now, LAMBDA id : id # DraggedId)
            = SelectSeq(was, LAMBDA id : id # DraggedId)

\* C21: normalization is idempotent: flattening a flattened list, renumbering
\* a renumbered list and flattening a renumbered list change neither the
\* sequence nor any order value
C21_NormalizationIdempotent ==
  \A c \in Cats :
    LET ts == tasks[c]
    IN /\ HierarchicalTasks(HierarchicalTasks(ts)) = HierarchicalTasks(ts)
       /\ FinalTasksWithOrder(FinalTasksWithOrder(ts)) = FinalTasksWithOrder(ts)
       /\ HierarchicalTasks(FinalTasksWithOrder(ts)) = FinalTasksWithOrder(ts)

\* C21 witness: a committed list that is not in flattened order, has two
\* siblings of equal order and is changed by the renumbering
C21_Witness ==
  /\ Issued("reorder")
  /\ HierarchicalTasks(After) # After
  /\ FinalTasksWithOrder(After) # After
  /\ ~DenseOrdersIn(After)
  /\ \E i, j \in 1..Len(After) :
       /\ i # j /\ After[i].order = After[j].order
       /\ After[i].parentId = NoParent /\ After[j].parentId = NoParent

\* C22: the flattened sequence lists the root tasks by ascending order, each
\* immediately followed by exactly its own children by ascending order, and
\* siblings of equal order keep their relative position of the stored list
C22_FlattenedSequenceOrder ==
  \A c \in Cats :
    LET ts == tasks[c]
        seq == HierarchicalTasks(ts)
    IN /\ UniqueIdsIn(seq)
       /\ \A i \in 1..Len(seq) : seq[i] = TaskOf(ts, seq[i].id)
       /\ \A i \in 1..Len(ts) :
            ts[i].parentId = NoParent => ts[i].id \in Ids(seq)
       /\ \A i, j \in 1..Len(ts) :
            (ts[j].parentId = NoParent /\ ts[i].parentId = ts[j].id)
              => ts[i].id \in Ids(seq)
       /\ \A i, j \in 1..Len(seq) :
            (i < j /\ seq[i].parentId = seq[j].parentId) =>
              /\ seq[i].order <= seq[j].order
              /\ seq[i].order = seq[j].order
                   => FindIndex(ts, seq[i].id) < FindIndex(ts, seq[j].id)
       /\ \A i \in 1..Len(seq) :
            seq[i].parentId # NoParent =>
              \E r \in 1..(i - 1) :
                /\ seq[r].id = seq[i].parentId /\ seq[r].parentId = NoParent
                /\ \A k \in (r + 1)..i : seq[k].parentId = seq[r].id

\* C22 witness: the stored list is out of flattened order and holds two root
\* tasks of equal order and a section between root tasks
C22_Witness ==
  /\ Issued("reorder")
  /\ HierarchicalTasks(After) # After
  /\ \E i, j \in 1..Len(After) :
       /\ i < j /\ After[i].order = After[j].order
       /\ After[i].parentId = NoParent /\ After[j].parentId = NoParent
  /\ \E i \in 1..Len(After) :
       /\ After[i].parentId # NoParent
       /\ TaskOf(After, After[i].parentId).order
            < SetMax({After[k].order : k \in Group(After, NoParent)})

(* -------------------------- concurrent intents ------------------------- *)
Settled == pending = {}

\* C23: once every remote call has settled, the collection holds no effect of
\* an intent whose remote call was rejected: no task added by a rejected Add
C23_NoEffectOfRejectedIntent ==
  Settled => \A p \in rejected : p.kind = "add" => p.id \notin AllIds(tasks)

\* the ids of the Adds whose remote call is in flight or was rejected
UnconfirmedAdds == {p.id : p \in {q \in pending \cup rejected : q.kind = "add"}}

\* C24: the rollback of an intent never removes a task that an earlier Add,
\* confirmed by the remote store, had put in the collection and that was in
\* it right before the intent was dispatched
C24_RollbackKeepsEarlierConfirmedAdd ==
  RolledBack =>
    \A id \in AllIds(last.call.pre) :
      (id >= FirstFreshId /\ id < last.call.fresh /\ id \notin UnconfirmedAdds)
        => id \in AllIds(tasks)

\* C25: the rollback of an intent dispatched while the initial load was
\* pending, handled after the load was installed, leaves the loaded tasks in
\* the collection
C25_RollbackKeepsLoadedTasks ==
  (RolledBack /\ last.call.load = "pending" /\ load = "done") =>
    AllIds(SanitizeInitialData(ServerTasks)) \subseteq AllIds(tasks)

(* --------------------------- the remote store -------------------------- *)
\* a collection and a store by value: id, description, order and parentId
LocalView(all) ==
  UNION {{[id |-> all[c][i].id, description |-> all[c][i].description,
           order |-> all[c][i].order, parentId |-> all[c][i].parentId] :
          i \in 1..Len(all[c])} : c \in Cats}
RemoteView(store) ==
  {[id |-> t.id, description |-> t.description,
    order |-> t.order, parentId |-> t.parentId] : t \in store}

\* C26: when no remote call was rejected and none is in flight, the remote
\* store holds exactly the tasks of the local collection, with the same
\* description, order and parentId
C26_RemoteMatchesLocal ==
  (Settled /\ rejected = {}) => RemoteView(remote) = LocalView(tasks)

\* C28: the step that rolls back a reorder whose persistence failed leaves the
\* remote store as it was: no order update of that reorder has been applied
C28_FailedReorderLeavesRemoteUnchanged ==
  [][(\E p \in rejected' \ rejected : p.kind = "reorder") => remote' = remote]_vars

(* ------------------------- which tasks exist --------------------------- *)
\* C27: a Reorder/Renest keeps the set of task ids stored in the category it
\* is applied to
C27_ReorderKeepsTaskIds ==
  Issued("reorder") =>
    Ids(tasks[last.call.cat]) = Ids(last.call.pre[last.call.cat])

(* ------------------------- the other category -------------------------- *)
OtherCategory(cat) == IF cat = "personal" THEN "work" ELSE "personal"

\* C29: a step that dispatches an intent, and a step that rolls back a
\* rejected intent, leave the list of the category the intent was not
\* applied to as it is
C29_OtherCategoryUntouched ==
  [][/\ (nIntents' = nIntents + 1) =>
          tasks'[OtherCategory(last'.call.cat)]
            = tasks[OtherCategory(last'.call.cat)]
     /\ \A p \in rejected' \ rejected :
          tasks'[OtherCategory(p.cat)] = tasks[OtherCategory(p.cat)]]_vars

(* ----------------------- the new-task marker --------------------------- *)
\* C30: newTaskId is null or the id of a task present in the list of the
\* active category
C30_NewTaskIdNamesPresentTask ==
  newTaskId = NoTask \/ newTaskId \in Ids(tasks[category])

====
